---------------------------- MODULE Spec2Model ----------------------------
(***************************************************************************)
(* A model of src/app.py: the numeric normaliser                           *)
(* clean_and_convert_to_numeric, the reconciliation function               *)
(* recalculate_dataframe, and the Streamlit script that queues uploaded    *)
(* images, stores one result table per image in session state, re-runs the *)
(* reconciliation on every display pass and merges the tables for export.  *)
(*                                                                         *)
(* Numbers.  A Python float is modelled as a decimal [nan, m, e] standing  *)
(* for m / 10^e (nan = TRUE is NaN), kept in lowest terms so that equal    *)
(* numbers are equal records.  All arithmetic is exact; rounding is        *)
(* round-half-to-even as numpy's round.  Text is a sequence of             *)
(* one-character strings.                                                  *)
(***************************************************************************)
EXTENDS Integers, Sequences, FiniteSets, TLC

VARIABLES
    file_list,          \* st.session_state.file_list: sequence of file ids
    results,            \* st.session_state.results: insertion-ordered dict, a sequence of [id, df]
    processed_ids,      \* st.session_state.processed_ids
    processing_active,  \* st.session_state.processing_active
    rerun,              \* TRUE when the last script run ended in st.rerun()
    merged_df,          \* the merged table of STEP 4 as last rendered
    failed_ids,         \* history: ids whose recognition raised since the last reset
    edits,              \* history: how many edits the user has made
    value,              \* argument of a call of clean_and_convert_to_numeric
    cleaned,            \* what that call returned
    df,                 \* argument of a call of recalculate_dataframe
    recalculated        \* what that call returned

vars == <<file_list, results, processed_ids, processing_active, rerun,
          merged_df, failed_ids, edits, value, cleaned, df, recalculated>>

appVars == <<file_list, results, processed_ids, processing_active, rerun,
             merged_df, failed_ids, edits>>

(***************************************************************************)
(* Bounds of the model.                                                    *)
(***************************************************************************)
MaxLen == 4     \* longest text handed to the normaliser
MaxFiles == 2   \* most images in an upload
MaxEdits == 1   \* most edits the user makes

(***************************************************************************)
(* Floats as exact decimals.                                               *)
(***************************************************************************)
RECURSIVE Pow10(_)
Pow10(n) == IF n = 0 THEN 1 ELSE 10 * Pow10(n - 1)

Abs(x) == IF x < 0 THEN -x ELSE x

Max(a, b) == IF a >= b THEN a ELSE b

NaN == [nan |-> TRUE, m |-> 0, e |-> 0]

RECURSIVE Dec(_, _)
Dec(m, e) ==
    IF m = 0 THEN [nan |-> FALSE, m |-> 0, e |-> 0]
    ELSE IF e > 0 /\ m % 10 = 0 THEN Dec(m \div 10, e - 1)
    ELSE [nan |-> FALSE, m |-> m, e |-> e]

isna(x) == x.nan

\* n / d rounded to the nearest integer, ties to the even one (d > 0)
RoundHalfEven(n, d) ==
    LET q == n \div d
        r == n % d
    IN  IF 2 * r < d THEN q
        ELSE IF 2 * r > d THEN q + 1
        ELSE IF q % 2 = 0 THEN q ELSE q + 1

\* x.round(k): NaN stays NaN
Round(x, k) ==
    IF x.nan THEN NaN
    ELSE IF x.e <= k THEN x
    ELSE Dec(RoundHalfEven(x.m, Pow10(x.e - k)), k)

Mul(x, y) == IF x.nan \/ y.nan THEN NaN ELSE Dec(x.m * y.m, x.e + y.e)

\* (x / y).round(2); y = 0 gives inf or NaN, which the callers never select
Inf == [nan |-> FALSE, m |-> 0, e |-> 99]

DivRound2(x, y) ==
    IF x.nan \/ y.nan THEN NaN
    ELSE IF y.m = 0 THEN (IF x.m = 0 THEN NaN ELSE Inf)
    ELSE LET n == x.m * Pow10(y.e) * 100
             d == y.m * Pow10(x.e)
         IN  IF d > 0 THEN Dec(RoundHalfEven(n, d), 2)
             ELSE Dec(RoundHalfEven(-n, -d), 2)

\* numpy.isclose(a, b) with its defaults: |a - b| <= atol + rtol * |b|
AtolInv == 100000000   \* atol = 1e-8
RtolInv == 100000      \* rtol = 1e-5

isclose(a, b) ==
    IF a.nan \/ b.nan THEN FALSE
    ELSE LET E  == Max(a.e, b.e)
             D  == Abs(a.m * Pow10(E - a.e) - b.m * Pow10(E - b.e))
             \* (atol + rtol * |b|) * 10^E * 10^8
             T  == Pow10(E) + Abs(b.m) * Pow10(E - b.e) * (AtolInv \div RtolInv)
         IN  D <= T \div AtolInv

(***************************************************************************)
(* Text.                                                                   *)
(***************************************************************************)
Digits == {"0", "1", "2", "3", "4", "5", "6", "7", "8", "9"}

DigitVal(c) ==
    CASE c = "0" -> 0 [] c = "1" -> 1 [] c = "2" -> 2 [] c = "3" -> 3
      [] c = "4" -> 4 [] c = "5" -> 5 [] c = "6" -> 6 [] c = "7" -> 7
      [] c = "8" -> 8 [] c = "9" -> 9

Whitespace == {" "}

\* the character class [\d\.]
InClass(c) == c \in Digits \/ c = "."

RECURSIVE lstrip(_)
lstrip(s) == IF s # <<>> /\ Head(s) \in Whitespace THEN lstrip(Tail(s)) ELSE s

RECURSIVE rstrip(_)
rstrip(s) ==
    IF s # <<>> /\ s[Len(s)] \in Whitespace THEN rstrip(SubSeq(s, 1, Len(s) - 1)) ELSE s

strip(s) == rstrip(lstrip(s))

\* re.findall(r'[\d\.]+', s): the maximal runs of class characters, left to right
RECURSIVE findall_from(_, _, _)
findall_from(s, i, cur) ==
    IF i > Len(s) THEN (IF cur = <<>> THEN <<>> ELSE <<cur>>)
    ELSE IF InClass(s[i]) THEN findall_from(s, i + 1, Append(cur, s[i]))
    ELSE IF cur = <<>> THEN findall_from(s, i + 1, <<>>)
    ELSE <<cur>> \o findall_from(s, i + 1, <<>>)

re_findall(s) == findall_from(s, 1, <<>>)

\* float(text) for a text of digits and dots: [ok, val]; ok = FALSE is ValueError
RECURSIVE ParseDigits(_, _, _, _)
ParseDigits(t, m, e, dots) ==
    IF t = <<>> THEN [m |-> m, e |-> e, dots |-> dots]
    ELSE IF Head(t) = "." THEN ParseDigits(Tail(t), m, e, dots + 1)
    ELSE ParseDigits(Tail(t), 10 * m + DigitVal(Head(t)),
                     IF dots > 0 THEN e + 1 ELSE e, dots)

float_of_text(t) ==
    LET p == ParseDigits(t, 0, 0, 0)
        nd == Cardinality({i \in 1..Len(t) : t[i] \in Digits})
    IN  IF p.dots <= 1 /\ nd >= 1
        THEN [ok |-> TRUE, val |-> Dec(p.m, p.e)]
        ELSE [ok |-> FALSE, val |-> NaN]

(***************************************************************************)
(* Python values as they reach the normaliser: None, a str, an int or      *)
(* float (num), a bool, or another JSON value: a list of one-digit ints,   *)
(* its items kept as their digits.                                         *)
(***************************************************************************)
PyNone == [t |-> "none", s |-> <<>>, f |-> NaN]
PyStr(s) == [t |-> "str", s |-> s, f |-> NaN]
PyNum(f) == [t |-> "num", s |-> <<>>, f |-> f]
PyBool(b) == [t |-> "bool", s |-> <<>>, f |-> Dec(IF b THEN 1 ELSE 0, 0)]
PyList(items) == [t |-> "list", s |-> items, f |-> NaN]

RECURSIVE JoinItems(_)
JoinItems(items) ==
    IF items = <<>> THEN <<>>
    ELSE IF Len(items) = 1 THEN <<items[1]>>
    ELSE <<items[1], ",", " ">> \o JoinItems(Tail(items))

\* str(value), for the values that reach line 78: a str is itself, a list is
\* written "[1, 5]"
str(v) == IF v.t = "list" THEN <<"[">> \o JoinItems(v.s) \o <<"]">> ELSE v.s

\* type(value) in (int, float): a bool is not taken for a number
IsNumberNoBool(v) == v.t = "num"

\* isinstance(value, (int, float)); bool is a subclass of int
IsNumber(v) == v.t \in {"num", "bool"}

\* lines 80-83 reading the last run, numbers[-1]
TryFloatLast(numbers) ==
    LET r == float_of_text(numbers[Len(numbers)])
    IN  IF r.ok THEN [exc |-> FALSE, val |-> r.val]
        ELSE [exc |-> FALSE, val |-> NaN]

\* the try/except around float(numbers[0]) (lines 80-83)
TryFloat(numbers) ==
    LET r == float_of_text(numbers[1])
    IN  IF r.ok THEN [exc |-> FALSE, val |-> r.val]
        ELSE [exc |-> FALSE, val |-> NaN]

\* def clean_and_convert_to_numeric(value): [exc, val]; exc = TRUE is a raise
clean_and_convert_to_numeric(v) ==
    IF v.t = "none" \/ (v.t = "str" /\ strip(v.s) = <<>>)
    THEN [exc |-> FALSE, val |-> NaN]
    ELSE IF IsNumber(v) THEN [exc |-> FALSE, val |-> v.f]
    ELSE LET numbers == re_findall(str(v))
         IN  IF numbers # <<>> THEN TryFloat(numbers)
             ELSE [exc |-> FALSE, val |-> NaN]


(***************************************************************************)
(* Data frames.  A frame is [cols, rows]: the set of its column names and  *)
(* the sequence of its rows.  A row is a record over all nine columns of   *)
(* final_cols; a field whose column is not in cols holds a filler and is   *)
(* never read.  Columns: name 品名, category 分类, quantity 识别数量,         *)
(* unit_price 识别单价, line_total 识别总价, status 状态, computed_total      *)
(* 计算总价, implied_quantity [按总价]推算数量, implied_unit_price             *)
(* [按总价]推算单价.                                                         *)
(***************************************************************************)
expected_cols == {"name", "category", "quantity", "unit_price", "line_total"}

final_cols == {"status", "name", "category", "quantity", "unit_price", "line_total",
               "computed_total", "implied_quantity", "implied_unit_price"}

Consistent == "Consistent"                 \* '✅ 一致'
ConsistentRounded == "ConsistentRounded"   \* '✅ 一致 (已抹零)'
NeedsReview == "NeedsReview"               \* '⚠️ 需核对'
Insufficient == "Insufficient"             \* '❔ 信息不足'
ErrorStatus == "Error"                     \* "❌ 错误"
NoStatus == "NoStatus"                     \* filler of a frame without the status column

EmptyText == PyStr(<<>>)

\* a row as the recogniser or the editor gives it: raw cells only
RawRow(name, category, quantity, unit_price, line_total) ==
    [name |-> name, category |-> category, quantity |-> quantity,
     unit_price |-> unit_price, line_total |-> line_total,
     status |-> NoStatus, computed_total |-> NaN,
     implied_quantity |-> NaN, implied_unit_price |-> NaN]

\* lines 90-92: a missing expected column is added, filled with ""
Cell(frame, row, col) == IF col \in frame.cols THEN row[col] ELSE EmptyText

np_where(cond, a, b) == IF cond THEN a ELSE b

\* lines 99-100 with the total cut to an integer instead of rounded
StatusTruncating(computed_total, total_num) ==
    LET truncated == IF computed_total.nan THEN NaN
                     ELSE Dec(computed_total.m \div Pow10(computed_total.e), 0)
    IN  np_where(isclose(computed_total, total_num), Consistent,
            np_where(isclose(truncated, total_num), ConsistentRounded, NeedsReview))

\* lines 99-100 with == in place of the first np.isclose
StatusExactEquality(computed_total, total_num) ==
    np_where(~computed_total.nan /\ computed_total = total_num, Consistent,
        np_where(isclose(Round(computed_total, 0), total_num),
                 ConsistentRounded, NeedsReview))

\* lines 99-100: the nested np.where over np.isclose
where_status(computed_total, total_num) ==
    np_where(isclose(computed_total, total_num), Consistent,
        np_where(isclose(Round(computed_total, 0), total_num),
                 ConsistentRounded, NeedsReview))

\* line 101 left out
LocNoOverride(computed_total, total_num, status) == status

\* line 101: rows with a NaN on either side become '❔ 信息不足'
loc_insufficient(computed_total, total_num, status) ==
    IF isna(computed_total) \/ isna(total_num) THEN Insufficient ELSE status

\* lines 103-104 without the np.where guard
ImpliedNoZeroGuard(total_num, denominator_num) == DivRound2(total_num, denominator_num)

\* lines 103-104: np.where(denominator != 0, (total / denominator).round(2), nan)
implied(total_num, denominator_num) ==
    np_where(denominator_num.nan \/ denominator_num.m # 0,
             DivRound2(total_num, denominator_num), NaN)

\* lines 94-104 for one row
recalculate_row(frame, row) ==
    LET q == clean_and_convert_to_numeric(Cell(frame, row, "quantity"))
        p == clean_and_convert_to_numeric(Cell(frame, row, "unit_price"))
        t == clean_and_convert_to_numeric(Cell(frame, row, "line_total"))
        c == Round(Mul(q.val, p.val), 2)
    IN  [exc |-> q.exc \/ p.exc \/ t.exc,
         row |-> [name |-> Cell(frame, row, "name"),
                  category |-> Cell(frame, row, "category"),
                  quantity |-> Cell(frame, row, "quantity"),
                  unit_price |-> Cell(frame, row, "unit_price"),
                  line_total |-> Cell(frame, row, "line_total"),
                  status |-> loc_insufficient(c, t.val, where_status(c, t.val)),
                  computed_total |-> c,
                  implied_quantity |-> implied(t.val, p.val),
                  implied_unit_price |-> implied(t.val, q.val)]]

\* def recalculate_dataframe(df): [exc, df]; exc = TRUE when a normalisation raised
recalculate_dataframe(frame) ==
    LET done == [i \in 1..Len(frame.rows) |-> recalculate_row(frame, frame.rows[i])]
    IN  [exc |-> \E i \in 1..Len(frame.rows) : done[i].exc,
         df  |-> [cols |-> final_cols,
                  rows |-> [i \in 1..Len(frame.rows) |-> done[i].row]]]


(***************************************************************************)
(* Session state after the first script run (lines 27-30), and the idle    *)
(* values of the call variables.                                           *)
(***************************************************************************)
NoPreview == [shown |-> FALSE, rows |-> <<>>]

AppInit ==
    /\ file_list = <<>>
    /\ results = <<>>
    /\ processed_ids = <<>>
    /\ processing_active = FALSE
    /\ rerun = FALSE
    /\ merged_df = NoPreview
    /\ failed_ids = {}
    /\ edits = 0

NotCleaned == [called |-> FALSE, exc |-> FALSE, val |-> NaN]
NotRecalculated == [called |-> FALSE, exc |-> FALSE, df |-> [cols |-> {}, rows |-> <<>>]]
NoFrame == [cols |-> {}, rows |-> <<>>]

CallsIdle ==
    /\ value = PyNone
    /\ cleaned = NotCleaned
    /\ df = NoFrame
    /\ recalculated = NotRecalculated

(***************************************************************************)
(* SpecNorm: clean_and_convert_to_numeric called on one value.             *)
(***************************************************************************)
Alphabet == {"0", "1", "5", ".", "x", " "}

Texts == UNION {[1..n -> Alphabet] : n \in 0..MaxLen}

Numbers == {Dec(0, 0), Dec(5, 0), Dec(-5, 0), Dec(125, 1), NaN}

Values ==
    {PyNone} \cup {PyStr(s) : s \in Texts} \cup {PyNum(f) : f \in Numbers}
    \cup {PyBool(b) : b \in BOOLEAN}
    \cup {PyList(items) : items \in {<<>>, <<"5">>, <<"1", "5">>}}

NormInit ==
    /\ AppInit
    /\ value \in Values
    /\ cleaned = NotCleaned
    /\ df = NoFrame
    /\ recalculated = NotRecalculated

CallClean ==
    /\ ~cleaned.called
    /\ LET r == clean_and_convert_to_numeric(value)
       IN  cleaned' = [called |-> TRUE, exc |-> r.exc, val |-> r.val]
    /\ UNCHANGED <<appVars, value, df, recalculated>>

NormNext == CallClean

SpecNorm == NormInit /\ [][NormNext]_vars

(***************************************************************************)
(* SpecRecon: recalculate_dataframe called on a one-row frame whose raw    *)
(* cells are drawn from pools of recognised values; one of the three       *)
(* numeric columns may be missing from the frame.                          *)
(***************************************************************************)
QuantityPool ==
    {PyStr(<<"5">>), PyStr(<<"2", "3">>), PyStr(<<"1">>), PyStr(<<"0">>),
     PyStr(<<"3">>), PyStr(<<>>), PyStr(<<" ">>), PyStr(<<"x">>), PyStr(<<".">>),
     PyNone, PyNum(Dec(2, 0)), PyNum(NaN)}

PricePool ==
    {PyStr(<<"8", "5">>), PyStr(<<"1", "5", ".", "9">>), PyStr(<<"1">>),
     PyStr(<<"3">>), PyStr(<<"0">>), PyStr(<<"2", ".", "5">>), PyStr(<<>>),
     PyStr(<<"1", ".", "5", ".", "3">>), PyNone,
     PyNum(Dec(3000, 0)), PyNum(Dec(30003, 1))}

TotalPool ==
    {PyStr(<<"4", "2", "5">>), PyStr(<<"3", "6", "5">>), PyStr(<<"3", "6", "6">>),
     PyStr(<<"1", "0">>), PyStr(<<"1", ".", "0", "0", "4">>), PyStr(<<"1">>),
     PyStr(<<"2">>), PyStr(<<"3">>), PyStr(<<"0">>), PyStr(<<>>), PyStr(<<"x">>),
     PyNone, PyNum(Dec(300002, 2))}

SomeName == PyStr(<<"a">>)
SomeCategory == PyStr(<<"c">>)

\* the field of a row whose column the frame does not have
Filler == PyNone

ReconFrames ==
    {[cols |-> expected_cols \ missing,
      rows |-> <<RawRow(SomeName, SomeCategory,
                        IF "quantity" \in missing THEN Filler ELSE q,
                        IF "unit_price" \in missing THEN Filler ELSE p,
                        IF "line_total" \in missing THEN Filler ELSE t)>>] :
        q \in QuantityPool, p \in PricePool, t \in TotalPool,
        missing \in {{}, {"quantity"}, {"unit_price"}, {"line_total"}}}

ReconInit ==
    /\ AppInit
    /\ value = PyNone
    /\ cleaned = NotCleaned
    /\ df \in ReconFrames
    /\ recalculated = NotRecalculated

CallRecalculate ==
    /\ ~recalculated.called
    /\ LET r == recalculate_dataframe(df)
       IN  recalculated' = [called |-> TRUE, exc |-> r.exc, df |-> r.df]
    /\ UNCHANGED <<appVars, value, cleaned, df>>

ReconNext == CallRecalculate

SpecRecon == ReconInit /\ [][ReconNext]_vars


(***************************************************************************)
(* Arithmetic used to state the properties, independent of the operators   *)
(* above: a present float x as the integer x * 1000 (the pools of          *)
(* SpecRecon hold at most three decimals).                                 *)
(***************************************************************************)
Thousandths(x) == x.m * Pow10(3 - x.e)

\* |a - b| <= 1e-8 + 1e-5 * |b|, that is 10^5 * |a3 - b3| <= 1 + |b3|
WithinIscloseTolerance(a, b) ==
    Abs(Thousandths(a) - Thousandths(b)) <= (1 + Abs(Thousandths(b))) \div 100000

\* the integer nearest to x, the even one of two equally near
NearestInteger(x) ==
    LET lo == Thousandths(x) \div 1000
    IN  CHOOSE n \in {lo, lo + 1} :
            /\ 2 * Abs(Thousandths(x) - 1000 * n) <= 1000
            /\ (2 * Abs(Thousandths(x) - 1000 * n) = 1000 => n % 2 = 0)

\* r is x / y to 2 decimal places: r has at most 2 decimals and |r - x/y| <= 0.005
IsQuotientTo2Places(r, x, y) ==
    /\ ~r.nan /\ r.e <= 2
    /\ 2 * Abs(r.m * Pow10(2 - r.e) * y.m * Pow10(x.e) - 100 * x.m * Pow10(y.e))
         <= Abs(y.m) * Pow10(x.e)

\* r * y = x exactly
IsExactQuotient(r, x, y) ==
    /\ ~r.nan
    /\ r.m * y.m * Pow10(x.e) = x.m * Pow10(r.e + y.e)

IsBlank(text) == \A i \in 1..Len(text) : text[i] \in Whitespace

\* a raw cell with no parseable number: no column, None, no digit at all, or
\* digits and dots only with more than one dot
NoParseableNumber(frame, row, col) ==
    \/ col \notin frame.cols
    \/ row[col].t = "none"
    \/ /\ row[col].t = "str"
       /\ \/ \A i \in 1..Len(row[col].s) : row[col].s[i] \notin Digits
          \/ /\ \A i \in 1..Len(row[col].s) : InClass(row[col].s[i])
             /\ Cardinality({i \in 1..Len(row[col].s) : row[col].s[i] = "."}) > 1

NumericCols == {"quantity", "unit_price", "line_total"}

\* the normalised value of a raw column of the frame handed to recalculate_dataframe
NumOf(i, col) == clean_and_convert_to_numeric(Cell(df, df.rows[i], col)).val

OutRow(i) == recalculated.df.rows[i]

Rows == 1..Len(df.rows)

IsRow(i, q, p, t) ==
    /\ df.cols = expected_cols
    /\ df.rows[i].quantity = PyStr(q)
    /\ df.rows[i].unit_price = PyStr(p)
    /\ df.rows[i].line_total = PyStr(t)

(***************************************************************************)
(* C1: after recalculate_dataframe a row is Insufficient if and only if    *)
(* its computed_total or its normalised line total is Missing; a quantity, *)
(* unit-price or line-total cell that is absent, empty or holds no         *)
(* parseable number makes the row Insufficient; and the call does not      *)
(* raise.                                                                  *)
(***************************************************************************)
C1_InsufficientIffMissing ==
    recalculated.called =>
        /\ ~recalculated.exc
        /\ Len(recalculated.df.rows) = Len(df.rows)
        /\ \A i \in Rows :
            /\ OutRow(i).status = Insufficient
                 <=> (isna(OutRow(i).computed_total) \/ isna(NumOf(i, "line_total")))
            /\ isna(OutRow(i).computed_total)
                 <=> (isna(NumOf(i, "quantity")) \/ isna(NumOf(i, "unit_price")))
            /\ \A col \in NumericCols :
                 NoParseableNumber(df, df.rows[i], col) =>
                     /\ isna(NumOf(i, col))
                     /\ OutRow(i).status = Insufficient

C1_Witness ==
    /\ recalculated.called
    /\ IsRow(1, <<"x">>, <<"8", "5">>, <<"4", "2", "5">>)
    /\ OutRow(1).status = Insufficient

(***************************************************************************)
(* C2 as claimed: a row with both totals present is Consistent exactly     *)
(* when they round to the same value at 2 decimals or differ by less than  *)
(* 0.01.                                                                   *)
(***************************************************************************)
BothPresent(i) == ~isna(OutRow(i).computed_total) /\ ~isna(NumOf(i, "line_total"))

C2_AbsoluteTolerance ==
    recalculated.called =>
        \A i \in Rows : BothPresent(i) =>
            (OutRow(i).status = Consistent
               <=> \/ RoundHalfEven(Thousandths(OutRow(i).computed_total), 10)
                        = RoundHalfEven(Thousandths(NumOf(i, "line_total")), 10)
                   \/ Abs(Thousandths(OutRow(i).computed_total)
                            - Thousandths(NumOf(i, "line_total"))) < 10)

(***************************************************************************)
(* C2 amended: a row with both totals present is Consistent exactly when   *)
(* |computed_total - line_total_num| <= 1e-8 + 1e-5 * |line_total_num|,    *)
(* computed_total being the product rounded to 2 decimals: a tolerance     *)
(* that grows with the total.  Quantity 5, unit price 85, line total 425   *)
(* gives computed_total 425.0 and Consistent.                              *)
(***************************************************************************)
C2_IscloseTolerance ==
    recalculated.called =>
        \A i \in Rows :
            /\ BothPresent(i) =>
                 (OutRow(i).status = Consistent
                    <=> WithinIscloseTolerance(OutRow(i).computed_total,
                                               NumOf(i, "line_total")))
            /\ IsRow(i, <<"5">>, <<"8", "5">>, <<"4", "2", "5">>) =>
                 /\ OutRow(i).computed_total = Dec(425, 0)
                 /\ OutRow(i).status = Consistent

\* 1 x 3000 against 3000.02: 0.02 apart and Consistent
C2_Witness ==
    /\ recalculated.called
    /\ df.cols = expected_cols
    /\ OutRow(1).computed_total = Dec(3000, 0)
    /\ NumOf(1, "line_total") = Dec(300002, 2)
    /\ OutRow(1).status = Consistent

(***************************************************************************)
(* C3 as claimed: a row neither Insufficient nor Consistent is             *)
(* Consistent-Rounded exactly when computed_total rounded to the nearest   *)
(* integer equals line_total_num, and NeedsReview otherwise.               *)
(***************************************************************************)
C3_RoundedEqualsTotal ==
    recalculated.called =>
        \A i \in Rows : OutRow(i).status \notin {Insufficient, Consistent} =>
            /\ OutRow(i).status \in {ConsistentRounded, NeedsReview}
            /\ OutRow(i).status = ConsistentRounded
                 <=> 1000 * NearestInteger(OutRow(i).computed_total)
                        = Thousandths(NumOf(i, "line_total"))

(***************************************************************************)
(* C3 amended: a row neither Insufficient nor Consistent is                *)
(* Consistent-Rounded exactly when computed_total rounded to the nearest   *)
(* integer (ties to even) is within 1e-8 + 1e-5 * |line_total_num| of      *)
(* line_total_num, and NeedsReview otherwise; Consistent takes priority;   *)
(* quantity 23, unit price 15.9, line total 365 is NeedsReview.            *)
(***************************************************************************)
C3_RoundedWithinTolerance ==
    recalculated.called =>
        \A i \in Rows :
            /\ OutRow(i).status \notin {Insufficient, Consistent} =>
                 /\ OutRow(i).status \in {ConsistentRounded, NeedsReview}
                 /\ OutRow(i).status = ConsistentRounded
                      <=> WithinIscloseTolerance(
                              Dec(NearestInteger(OutRow(i).computed_total), 0),
                              NumOf(i, "line_total"))
            /\ (BothPresent(i) /\ WithinIscloseTolerance(OutRow(i).computed_total,
                                                       NumOf(i, "line_total")))
                 => OutRow(i).status = Consistent
            /\ IsRow(i, <<"2", "3">>, <<"1", "5", ".", "9">>, <<"3", "6", "5">>) =>
                 /\ OutRow(i).computed_total = Dec(3657, 1)
                 /\ OutRow(i).status = NeedsReview

\* 23 x 15.9 = 365.7 against 366
C3_Witness ==
    /\ recalculated.called
    /\ IsRow(1, <<"2", "3">>, <<"1", "5", ".", "9">>, <<"3", "6", "6">>)
    /\ OutRow(1).status = ConsistentRounded

(***************************************************************************)
(* C4 as claimed: implied_quantity is Missing when unit_price_num is zero  *)
(* or Missing and otherwise equals line_total_num / unit_price_num         *)
(* exactly; likewise implied_unit_price with quantity_num.                 *)
(***************************************************************************)
Usable(x) == ~x.nan /\ x.m # 0

C4_ExactQuotient ==
    recalculated.called =>
        \A i \in Rows :
            LET q == NumOf(i, "quantity")
                p == NumOf(i, "unit_price")
                t == NumOf(i, "line_total")
            IN  /\ ~Usable(p) => isna(OutRow(i).implied_quantity)
                /\ ~Usable(q) => isna(OutRow(i).implied_unit_price)
                /\ (Usable(p) /\ ~t.nan) => IsExactQuotient(OutRow(i).implied_quantity, t, p)
                /\ (Usable(q) /\ ~t.nan) => IsExactQuotient(OutRow(i).implied_unit_price, t, q)

(***************************************************************************)
(* C4 amended: implied_quantity is Missing when unit_price_num is zero or  *)
(* Missing (or the line total is Missing) and otherwise is                 *)
(* line_total_num / unit_price_num rounded to 2 decimal places; likewise   *)
(* implied_unit_price with quantity_num.  Each is computed from its own    *)
(* two fields even when the row is Insufficient.                           *)
(***************************************************************************)
C4_QuotientRounded ==
    recalculated.called =>
        \A i \in Rows :
            LET q == NumOf(i, "quantity")
                p == NumOf(i, "unit_price")
                t == NumOf(i, "line_total")
            IN  /\ (~Usable(p) \/ t.nan) => OutRow(i).implied_quantity = NaN
                /\ (~Usable(q) \/ t.nan) => OutRow(i).implied_unit_price = NaN
                /\ (Usable(p) /\ ~t.nan) =>
                       IsQuotientTo2Places(OutRow(i).implied_quantity, t, p)
                /\ (Usable(q) /\ ~t.nan) =>
                       IsQuotientTo2Places(OutRow(i).implied_unit_price, t, q)

\* quantity missing, price 3, total 10: Insufficient, implied quantity 3.33
C4_Witness ==
    /\ recalculated.called
    /\ IsRow(1, <<>>, <<"3">>, <<"1", "0">>)
    /\ OutRow(1).status = Insufficient
    /\ OutRow(1).implied_quantity = Dec(333, 2)
    /\ OutRow(1).implied_unit_price = NaN


(***************************************************************************)
(* The first maximal run of digit/dot characters of a text and the number  *)
(* it writes, stated without the operators of the model.                   *)
(***************************************************************************)
HasRun(text) == \E i \in 1..Len(text) : InClass(text[i])

FirstRunStart(text) ==
    CHOOSE i \in 1..Len(text) :
        InClass(text[i]) /\ \A j \in 1..(i - 1) : ~InClass(text[j])

FirstRunEnd(text) ==
    CHOOSE j \in FirstRunStart(text)..Len(text) :
        /\ \A k \in FirstRunStart(text)..j : InClass(text[k])
        /\ j = Len(text) \/ ~InClass(text[j + 1])

FirstRun(text) == SubSeq(text, FirstRunStart(text), FirstRunEnd(text))

IsDigit(c) == c \in Digits

RECURSIVE Numeral(_)
Numeral(ds) ==
    IF ds = <<>> THEN 0
    ELSE DigitVal(ds[Len(ds)]) + 10 * Numeral(SubSeq(ds, 1, Len(ds) - 1))

IsDecimal(run) ==
    /\ Cardinality({i \in 1..Len(run) : run[i] = "."}) <= 1
    /\ \E i \in 1..Len(run) : run[i] \in Digits

\* digits after the dot
Decimals(run) ==
    IF \E i \in 1..Len(run) : run[i] = "."
    THEN Len(run) - (CHOOSE i \in 1..Len(run) : run[i] = ".")
    ELSE 0

\* val is the number the decimal run writes: val * 10^Decimals = the digits read as an integer
Writes(run, val) ==
    /\ ~val.nan
    /\ val.e <= Decimals(run)
    /\ val.m * Pow10(Decimals(run) - val.e) = Numeral(SelectSeq(run, IsDigit))

FirstRunResult(text, val) ==
    IF HasRun(text) /\ IsDecimal(FirstRun(text))
    THEN Writes(FirstRun(text), val)
    ELSE val = NaN

C6_FirstRunOnly ==
    (cleaned.called /\ value.t = "str" /\ value.s # <<>>) =>
        /\ ~cleaned.exc
        /\ FirstRunResult(value.s, cleaned.val)
        /\ value.s = <<"5", "x">> => cleaned.val = Dec(5, 0)
        /\ value.s = <<"x", "1", ".", "5">> => cleaned.val = Dec(15, 1)
        /\ value.s = <<"1", "x", "5">> => cleaned.val = Dec(1, 0)
        /\ value.s = <<"1", ".", "5", ".">> => cleaned.val = NaN

\* the first run "." is no decimal and the later run "5" is not used
C6_Witness ==
    /\ cleaned.called
    /\ value = PyStr(<<".", "x", "5">>)
    /\ cleaned.val = NaN


(***************************************************************************)
(* The script.  One action is one run of the script from its top to the    *)
(* st.rerun() that ends it or to its last line, started by a user event    *)
(* or by the st.rerun() of the run before.                                 *)
(***************************************************************************)
FileIds == 1..MaxFiles

RECURSIVE SeqSet(_)
SeqSet(q) == IF q = <<>> THEN {} ELSE {Head(q)} \cup SeqSet(Tail(q))

\* what st.file_uploader can hold: a non-empty list of distinct files; here the
\* first n files in the order of their ids or in the opposite order
Uploads ==
    {[i \in 1..n |-> i] : n \in 1..MaxFiles} \cup {[i \in 1..n |-> n + 1 - i] : n \in 1..MaxFiles}

\* results as a dict
InResults(id) == \E k \in 1..Len(results) : results[k].id = id

results_get(res, id) == res[CHOOSE k \in 1..Len(res) : res[k].id = id].df

\* results[id] = frame: a new key goes last, an old key keeps its place
results_set(res, id, frame) ==
    IF \E k \in 1..Len(res) : res[k].id = id
    THEN [k \in 1..Len(res) |-> IF res[k].id = id THEN [id |-> id, df |-> frame] ELSE res[k]]
    ELSE Append(res, [id |-> id, df |-> frame])

\* line 129
NotProcessed(id) == id \notin SeqSet(processed_ids)

files_to_process == SelectSeq(file_list, NotProcessed)

\* what the recogniser's JSON can hold (lines 161-163): records with the five
\* keys; a named row that adds up, a row of blanks, a named row that does not add up
RowAddsUp ==
    RawRow(PyStr(<<"a">>), PyStr(<<"c">>), PyStr(<<"1">>), PyStr(<<"1">>), PyStr(<<"1">>))

RowBlank == RawRow(PyStr(<<" ">>), PyStr(<<>>), PyStr(<<>>), PyStr(<<>>), PyStr(<<>>))

RowOff ==
    RawRow(PyStr(<<"b">>), PyStr(<<"c">>), PyStr(<<"1">>), PyStr(<<"1">>), PyStr(<<"2">>))

RecognisedFrames ==
    {[cols |-> expected_cols, rows |-> <<RowAddsUp, RowBlank>>],
     [cols |-> expected_cols, rows |-> <<RowOff>>]}

\* line 172: pd.DataFrame([{"品名": "识别失败", "状态": "❌ 错误"}])
FailedName == PyStr(<<"f", "a", "i", "l", "e", "d">>)

ErrorPlaceholder ==
    [cols |-> {"name", "status"},
     rows |-> <<[RawRow(FailedName, Filler, Filler, Filler, Filler)
                    EXCEPT !.status = ErrorStatus]>>]

\* lines 169-172 against an except branch that forgets processed_ids
ExceptNoAppend(id) ==
    /\ processed_ids' = processed_ids
    /\ results' = results_set(results, id, ErrorPlaceholder)
    /\ failed_ids' = failed_ids \cup {id}

\* lines 169-172: the except branch
except_branch(id) ==
    /\ processed_ids' = Append(processed_ids, id)
    /\ results' = results_set(results, id, ErrorPlaceholder)
    /\ failed_ids' = failed_ids \cup {id}

\* lines 116-125: the upload differs from file_list; everything is reset
Upload(u) ==
    /\ SeqSet(u) # SeqSet(file_list)
    /\ file_list' = u
    /\ results' = <<>>
    /\ processed_ids' = <<>>
    /\ processing_active' = FALSE
    /\ failed_ids' = {}
    /\ rerun' = TRUE
    /\ merged_df' = NoPreview
    /\ UNCHANGED <<edits, value, cleaned, df, recalculated>>

\* lines 139-142: the start button
Start ==
    /\ ~rerun
    /\ file_list # <<>>
    /\ ~processing_active /\ files_to_process # <<>>
    /\ processing_active' = TRUE
    /\ rerun' = TRUE
    /\ merged_df' = NoPreview
    /\ UNCHANGED <<file_list, results, processed_ids, failed_ids, edits,
                   value, cleaned, df, recalculated>>

\* lines 144-148: the stop button
Stop ==
    /\ file_list # <<>>
    /\ processing_active
    /\ processing_active' = FALSE
    /\ rerun' = TRUE
    /\ merged_df' = NoPreview
    /\ UNCHANGED <<file_list, results, processed_ids, failed_ids, edits,
                   value, cleaned, df, recalculated>>

\* line 165 for each frame the recogniser can give: [exc, df]
ProcessedFrames == {recalculate_dataframe(frame) : frame \in RecognisedFrames}

\* lines 150-173: one image is recognised; failed = TRUE is any exception
\* raised in the try block before recalculate_dataframe, r is what line 165 returns
Recognise(failed, r) ==
    /\ file_list # <<>>
    /\ processing_active /\ files_to_process # <<>>
    /\ LET id == Head(files_to_process)
       IN  IF failed \/ r.exc
           THEN except_branch(id)
           ELSE /\ results' = results_set(results, id, r.df)
                /\ processed_ids' = Append(processed_ids, id)
                /\ failed_ids' = failed_ids
    /\ rerun' = TRUE
    /\ merged_df' = NoPreview
    /\ UNCHANGED <<file_list, processing_active, edits, value, cleaned, df, recalculated>>

ProcessNext == \E failed \in BOOLEAN, r \in ProcessedFrames : Recognise(failed, r)

\* lines 175-180: nothing is left to process
Finish ==
    /\ file_list # <<>>
    /\ files_to_process = <<>>
    /\ processing_active
    /\ processing_active' = FALSE
    /\ rerun' = TRUE
    /\ merged_df' = NoPreview
    /\ UNCHANGED <<file_list, results, processed_ids, failed_ids, edits,
                   value, cleaned, df, recalculated>>


(***************************************************************************)
(* STEP 3 and STEP 4 (lines 186-263), reached by a run that did not end in *)
(* st.rerun().  An edit is what the user did in one st.data_editor since   *)
(* the last run: nothing, a raw cell changed, a row added or a row         *)
(* deleted.                                                                *)
(***************************************************************************)
EditableCols == final_cols \ {"status", "computed_total", "implied_quantity",
                              "implied_unit_price"}

\* the cell edits the user makes: a column and the text typed into it
EditChoices ==
    {[col |-> "name", val |-> PyStr(<<>>)],
     [col |-> "quantity", val |-> PyStr(<<>>)],
     [col |-> "line_total", val |-> PyStr(<<"2">>)]}

NoEdit == [kind |-> "none", id |-> 0, i |-> 0, col |-> "name", val |-> PyNone]

RemoveAt(q, i) == SubSeq(q, 1, i - 1) \o SubSeq(q, i + 1, Len(q))

\* lines 203-209: the frame the editor of file id returns
data_editor(current_df, id, edit) ==
    IF edit.kind = "none" \/ edit.id # id THEN current_df
    ELSE IF edit.kind = "cell"
    THEN [current_df EXCEPT !.rows[edit.i][edit.col] = edit.val]
    ELSE IF edit.kind = "add"
    THEN [current_df EXCEPT
            !.rows = Append(@, RawRow(PyNone, PyNone, PyNone, PyNone, PyNone))]
    ELSE [current_df EXCEPT !.rows = RemoveAt(@, edit.i)]

\* lines 190-212: every file with a result is shown, recalculated and stored
RECURSIVE step3(_, _, _)
step3(files, res, edit) ==
    IF files = <<>> THEN res
    ELSE LET id == Head(files)
         IN  IF \E k \in 1..Len(res) : res[k].id = id
             THEN LET r == recalculate_dataframe(data_editor(results_get(res, id), id, edit))
                  IN  step3(Tail(files),
                            IF r.exc THEN res ELSE results_set(res, id, r.df), edit)
             ELSE step3(Tail(files), res, edit)

\* df['品名'].astype(str)
astype_str(v) == IF v.t = "none" THEN <<"N", "o", "n", "e">> ELSE v.s

\* line 226 without the strip
KeepUnstripped(frame) ==
    LET Keep(row) == astype_str(Cell(frame, row, "name")) # <<>>
    IN  SelectSeq(frame.rows, Keep)

\* line 226: the rows whose name is not the empty string after stripping
keep_named(frame) ==
    LET Keep(row) == strip(astype_str(Cell(frame, row, "name"))) # <<>>
    IN  SelectSeq(frame.rows, Keep)

\* lines 222-226
RECURSIVE cleaned_dfs(_)
cleaned_dfs(res) ==
    IF res = <<>> THEN <<>>
    ELSE LET frame == Head(res).df
         IN  IF frame.rows # <<>> /\ "name" \in frame.cols
             THEN <<keep_named(frame)>> \o cleaned_dfs(Tail(res))
             ELSE cleaned_dfs(Tail(res))

\* pd.concat(cleaned_dfs, ignore_index=True)
RECURSIVE concat(_)
concat(frames) == IF frames = <<>> THEN <<>> ELSE Head(frames) \o concat(Tail(frames))

\* lines 218-231: the merged table that is previewed and exported
step4(res) ==
    IF res # <<>> /\ cleaned_dfs(res) # <<>>
    THEN [shown |-> TRUE, rows |-> concat(cleaned_dfs(res))]
    ELSE NoPreview

View(edit) ==
    /\ ~processing_active
    /\ results' = step3(file_list, results, edit)
    /\ merged_df' = step4(results')
    /\ rerun' = FALSE
    /\ UNCHANGED <<file_list, processed_ids, processing_active, failed_ids,
                   value, cleaned, df, recalculated>>

\* a run with no edit: the run after st.rerun(), or any other widget event
Display == View(NoEdit) /\ UNCHANGED edits

CanEdit(id) == ~rerun /\ edits < MaxEdits /\ InResults(id)

EditCell ==
    \E id \in FileIds, c \in EditChoices :
        /\ CanEdit(id)
        /\ c.col \in EditableCols \cap results_get(results, id).cols
        /\ \E i \in 1..Len(results_get(results, id).rows) :
              View([kind |-> "cell", id |-> id, i |-> i, col |-> c.col, val |-> c.val])
        /\ edits' = edits + 1

AddRow ==
    \E id \in FileIds :
        /\ CanEdit(id)
        /\ View([kind |-> "add", id |-> id, i |-> 0, col |-> "name", val |-> PyNone])
        /\ edits' = edits + 1

DeleteRow ==
    \E id \in FileIds :
        /\ CanEdit(id)
        /\ \E i \in 1..Len(results_get(results, id).rows) :
              View([kind |-> "delete", id |-> id, i |-> i, col |-> "name", val |-> PyNone])
        /\ edits' = edits + 1

Init == AppInit /\ CallsIdle

Next ==
    \/ \E u \in Uploads : Upload(u)
    \/ Start
    \/ Stop
    \/ ProcessNext
    \/ Finish
    \/ Display
    \/ EditCell
    \/ AddRow
    \/ DeleteRow

Spec == Init /\ [][Next]_vars


(***************************************************************************)
(* LiveSpec: the script when the user, once processing is active, neither  *)
(* presses stop nor changes the upload.  Every run that ends in st.rerun() *)
(* is followed by another run, so the processing run and the finishing     *)
(* run are weakly fair.                                                    *)
(***************************************************************************)
UploadWhileIdle == \E u \in Uploads : ~processing_active /\ Upload(u)

LiveNext ==
    \/ UploadWhileIdle
    \/ Start
    \/ ProcessNext
    \/ Finish
    \/ Display
    \/ EditCell
    \/ AddRow
    \/ DeleteRow

LiveSpec == Init /\ [][LiveNext]_vars /\ WF_vars(ProcessNext) /\ WF_vars(Finish)

(***************************************************************************)
(* The stored rows, in the order of results.                               *)
(***************************************************************************)
RECURSIVE StoredRows(_)
StoredRows(res) ==
    IF res = <<>> THEN <<>> ELSE Head(res).df.rows \o StoredRows(Tail(res))

\* the name cell holds something other than white space
HasNameText(row) ==
    \/ row.name.t = "none"
    \/ \E i \in 1..Len(row.name.s) : row.name.s[i] \notin Whitespace

RowStatuses == {Consistent, ConsistentRounded, NeedsReview, Insufficient}

(***************************************************************************)
(* C7 as claimed: no row is dropped; the merged table that is previewed    *)
(* and exported holds every row of every stored table, in order.           *)
(***************************************************************************)
C7_NoRowDropped ==
    merged_df.shown => merged_df.rows = StoredRows(results)

(***************************************************************************)
(* C7 amended: the merged table holds, in the order of the stored tables,  *)
(* exactly the stored rows whose name is not empty after trimming, each    *)
(* with a status; a row with an empty or blank name is left out; the       *)
(* table is rendered whenever a stored table has a row.                    *)
(***************************************************************************)
C7_NamedRowsKept ==
    /\ merged_df.shown =>
         /\ merged_df.rows = SelectSeq(StoredRows(results), HasNameText)
         /\ \A i \in 1..Len(merged_df.rows) : merged_df.rows[i].status \in RowStatuses
    /\ (~rerun /\ StoredRows(results) # <<>>) => merged_df.shown

\* two files: a blank row is left out, the named rows follow the upload order
C7_Witness ==
    /\ merged_df.shown
    /\ file_list = <<2, 1>>
    /\ Len(StoredRows(results)) = 3
    /\ Len(merged_df.rows) = 2
    /\ merged_df.rows[1].name = PyStr(<<"b">>)
    /\ merged_df.rows[2].name = PyStr(<<"a">>)

(***************************************************************************)
(* C8: the placeholder row stored for an image whose recognition failed    *)
(* carries the error status in every later state, in the stored table and  *)
(* in the merged table, until the upload list is reset.                    *)
(***************************************************************************)
C8_ErrorStatusPersists ==
    /\ \A k \in 1..Len(results) : results[k].id \in failed_ids =>
          \A i \in 1..Len(results[k].df.rows) :
              results[k].df.rows[i].name = FailedName
                  => results[k].df.rows[i].status = ErrorStatus
    /\ merged_df.shown =>
          \A i \in 1..Len(merged_df.rows) :
              merged_df.rows[i].name = FailedName
                  => merged_df.rows[i].status = ErrorStatus

(***************************************************************************)
(* C9: in every reachable state every stored table equals what             *)
(* recalculate_dataframe yields from it: the derived columns and the       *)
(* status of each row are those of its raw cells, and recalculating again  *)
(* changes nothing.                                                        *)
(***************************************************************************)
\* a derived cell of a stored row; Missing when the table has no such column
Derived(frame, row, col) == IF col \in frame.cols THEN row[col] ELSE NaN

C9_StoredTablesRecalculated ==
    \A k \in 1..Len(results) :
        LET frame == results[k].df
            again == recalculate_dataframe(frame).df
        IN  /\ Len(again.rows) = Len(frame.rows)
            /\ \A i \in 1..Len(frame.rows) :
                  /\ "status" \in frame.cols
                  /\ frame.rows[i].status = again.rows[i].status
                  /\ \A col \in {"computed_total", "implied_quantity", "implied_unit_price"} :
                        Derived(frame, frame.rows[i], col) = again.rows[i][col]

(***************************************************************************)
(* C10: with the user neither stopping nor changing the upload while       *)
(* processing is active, the files are processed once each in list order,  *)
(* every processed file has a result, and an active batch leads to a state *)
(* where every file is processed, has a result, and processing_active is   *)
(* false.                                                                  *)
(***************************************************************************)
ProcessedInOrder ==
    /\ Len(processed_ids) <= Len(file_list)
    /\ processed_ids = SubSeq(file_list, 1, Len(processed_ids))
    /\ [k \in 1..Len(results) |-> results[k].id] = processed_ids

AllDone ==
    /\ ~processing_active
    /\ file_list # <<>>
    /\ processed_ids = file_list
    /\ \A i \in 1..Len(file_list) : InResults(file_list[i])

C10_BatchCompletes == [](ProcessedInOrder) /\ (processing_active ~> AllDone)

\* the first image failed and the second was processed all the same
C10_Witness ==
    /\ AllDone
    /\ Len(file_list) >= 2
    /\ file_list[1] \in failed_ids
    /\ file_list[2] \notin failed_ids
    /\ results_get(results, file_list[2]).cols = final_cols

=============================================================================
